---- MODULE Spec2Model ----
(***************************************************************************)
(* A model of bcup, a directory backup engine.                            *)
(*                                                                         *)
(* A source tree is backed up into a repository <target>/<name>/ holding   *)
(* one directory per snapshot key; a snapshot holds a loose tree `data',   *)
(* or an archive `data.tar.gz', and an `info' record.  The model keeps     *)
(* directory trees as functions from paths to entries and follows          *)
(* bcup/backup.py, bcup/diff.py, bcup/utils.py and bcup/filesystem.py      *)
(* statement by statement, the exceptions of the os and shutil calls       *)
(* included: an exception ends make() where it is raised and leaves what   *)
(* was written before it.                                                  *)
(*                                                                         *)
(* What the model fixes about the environment:                             *)
(*  - a symbolic link of target 1 names z, an entry of the link's own      *)
(*    directory (the relative target `z'), and one of target 2 names an    *)
(*    entry of a directory that does not exist (the relative target        *)
(*    `nx/z'); no source tree holds the name z, so a link is dangling      *)
(*    until a file is written through it, and z is never a directory;      *)
(*  - an edit of a source file changes its size or its modification time,  *)
(*    so filecmp.cmp compares contents;                                    *)
(*  - the key format orders keys as the clock does and no two runs share a *)
(*    key (BuildKey below states when a format does that), so a key is the *)
(*    ordinal of its timestamp;                                            *)
(*  - the names of the repository path itself (target, source name, key,   *)
(*    `data') are allowed by the target file system.                       *)
(*  - the clock of the Manager is read in whole seconds: a make() takes 0  *)
(*    or 1 of them, a skipped source none, and the pause between two       *)
(*    passes TIMEOUT or one more.                                          *)
(***************************************************************************)
EXTENDS Integers, Sequences, FiniteSets, TLC

VARIABLES
    cfg,      \* the Source: [method, compress, limit, fs]
    src,      \* the source directory tree
    repo,     \* the repository: key -> [data, tar, info]
    hist,     \* history: key -> the source tree when the key's make() ran
    last,     \* the outcome of the most recent make(), cleared by a source edit
    sched,    \* Manager: its sources, _run_map, the clock and the loop position
    kcase,    \* a function applied on its own: its inputs and its result
    run       \* a make() in progress: the steps still to do and what it holds

vars == <<cfg, src, repo, hist, last, sched, kcase, run>>

-----------------------------------------------------------------------------
(* Bounds *)

\* the greatest snapshot key (the number of timestamps that create a directory)
MaxKey == 3

-----------------------------------------------------------------------------
(* Paths, names and the target file system: bcup/filesystem.py *)

Names == {"a", "b", "q?", "t", "z"}

\* the characters of a name
NameChars(n) ==
    CASE n = "a" -> <<"a">>
      [] n = "b" -> <<"b">>
      [] n = "q?" -> <<"q", "?">>
      [] n = "t" -> <<"t">>
      [] n = "z" -> <<"z">>

\* relative paths as sequences of names; <<>> is the root of a tree
Paths == {<<"a">>, <<"a", "a">>, <<"a", "b">>, <<"a", "z">>, <<"q?">>, <<"z">>}

FsKinds == {"ext4", "ntfs"}

forbidden_chars(fs) ==
    CASE fs = "ext4" -> {"/"}
      [] fs = "ntfs" -> {"\"", "*", "/", ":", "<", ">", "?", "\\", "|"}

is_name_allowed(fs, n) ==
    \A i \in 1..Len(NameChars(n)) : NameChars(n)[i] \notin forbidden_chars(fs)

is_path_allowed(fs, p) ==
    \A i \in 1..Len(p) : is_name_allowed(fs, p[i])

\* the names of <target>/<name>/<key>/data, the root every copy writes under
RootNames == <<"t", "t", "t", "t">>

-----------------------------------------------------------------------------
(* Directory trees *)

NoEnt == [kind |-> "none", val |-> 0]
DirEnt == [kind |-> "dir", val |-> 0]
FileEnt(c) == [kind |-> "file", val |-> c]
LinkEnt(t) == [kind |-> "link", val |-> t]

EmptyTree == [p \in Paths |-> NoEnt]

Parent(p) == SubSeq(p, 1, Len(p) - 1)

Get(t, p) ==
    IF p = <<>> THEN DirEnt
    ELSE IF p \in Paths THEN t[p] ELSE NoEnt

\* the path a link at p with target 1 names
LinkTarget(p) == Append(Parent(p), "z")

\* the entry a call that follows links finds at p: nothing behind a link of
\* target 2, behind a link whose target is missing and behind a link that
\* names a link (z names itself)
Follow(t, p) ==
    LET Behind(e) == IF e.kind = "link" THEN NoEnt ELSE e
        Through(e) ==
            IF e.kind # "link" THEN e
            ELSE IF e.val = 1 THEN Behind(Get(t, LinkTarget(p)))
            ELSE NoEnt
    IN Through(Get(t, p))

\* os.path.isdir, os.path.exists: both follow links
IsDir(t, p) == Follow(t, p).kind = "dir"
Exists(t, p) == Follow(t, p).kind \in {"dir", "file"}

\* the state of a sequence of file operations on one tree:
\* err is "ok", "error" (an exception was raised) or "oob" (a path outside Paths)
Ok(t) == [t |-> t, err |-> "ok"]
Fail(st) == [t |-> st.t, err |-> "error"]
Oob(st) == [t |-> st.t, err |-> "oob"]
Put(st, p, e) ==
    IF p \in Paths THEN [t |-> [st.t EXCEPT ![p] = e], err |-> "ok"] ELSE Oob(st)

\* os.mkdir
Mkdir(st, p) ==
    IF Get(st.t, p).kind # "none" \/ ~IsDir(st.t, Parent(p)) THEN Fail(st)
    ELSE Put(st, p, DirEnt)

\* a tree of the source directory: the entry a, its member a/b, the entry q?
Tree(a, ab, q) ==
    [p \in Paths |->
        CASE p = <<"a">> -> a
          [] p = <<"a", "b">> -> ab
          [] p = <<"q?">> -> q
          [] OTHER -> NoEnt]

\* the source trees the model draws from: a is absent, a file (two contents),
\* a link (two targets) or a directory holding the file a/b (two contents);
\* q?, a name NTFS forbids, is a file beside no a or beside the file a
SourceTrees ==
    {Tree(a, NoEnt, NoEnt) :
        a \in {NoEnt, FileEnt(1), FileEnt(2), LinkEnt(1), LinkEnt(2)}}
    \cup {Tree(DirEnt, FileEnt(c), NoEnt) : c \in {1, 2}}
    \cup {Tree(a, NoEnt, FileEnt(1)) : a \in {NoEnt, FileEnt(1)}}

-----------------------------------------------------------------------------
(* bcup/utils.py *)

\* utils.ensure_dir: os.makedirs unless os.path.exists
RECURSIVE ensure_dir(_, _)
ensure_dir(st, d) ==
    IF d = <<>> \/ Exists(st.t, d) THEN st
    ELSE LET up == ensure_dir(st, Parent(d))
         IN IF up.err # "ok" THEN up ELSE Mkdir(up, d)

\* open(dst, 'wb') of shutil.copyfile for the regular file e: it overwrites a
\* regular file, raises on a directory, and follows a link: the file is
\* written at the link's target, the link stays; it raises when the target
\* is a directory or a link that leads nowhere, or lies in a missing directory
WriteFile(st, e, q) ==
    LET Target(z) ==
            IF z \notin Paths THEN Oob(st)
            ELSE IF st.t[z].kind \in {"dir", "link"} THEN Fail(st)
            ELSE Put(st, z, e)
        At(d) ==
            IF d.kind = "dir" THEN Fail(st)
            ELSE IF d.kind = "link"
            THEN IF d.val = 1 THEN Target(LinkTarget(q)) ELSE Fail(st)
            ELSE Put(st, q, e)
    IN At(Get(st.t, q))

\* shutil.copy2(src, dst, follow_symlinks=False) of the source entry e to p:
\* a destination that is a directory receives the entry under its own name;
\* os.symlink raises on an existing destination
copy2(st, e, p) ==
    LET q == IF IsDir(st.t, p) THEN Append(p, p[Len(p)]) ELSE p
        d == Get(st.t, q)
    IN IF q \notin Paths THEN Oob(st)
       ELSE IF ~IsDir(st.t, Parent(q)) THEN Fail(st)
       ELSE IF e.kind = "link"
            THEN IF d.kind # "none" THEN Fail(st) ELSE Put(st, q, e)
            ELSE WriteFile(st, e, q)

\* utils.copy_file; fs = "nofs" stands for dst_fs=None
copy_file(st, e, p, fs) ==
    IF fs = "nofs" \/ is_path_allowed(fs, RootNames \o p) THEN copy2(st, e, p) ELSE st

Children(t, d) == {p \in Paths : Parent(p) = d /\ t[p].kind # "none"}

\* utils.copy_tree(src, dst, dst_fs) for the directory d of the source tree s;
\* CopyNames is its loop over os.listdir(src)
RECURSIVE copy_tree(_, _, _, _)
RECURSIVE CopyNames(_, _, _, _)
copy_tree(st, s, d, fs) ==
    IF ~is_path_allowed(fs, RootNames \o d) THEN st
    ELSE LET made == IF d = <<>> THEN st ELSE Mkdir(st, d)
         IN IF made.err # "ok" THEN made ELSE CopyNames(made, s, Children(s, d), fs)

CopyNames(st, s, names, fs) ==
    IF names = {} \/ st.err # "ok" THEN st
    ELSE LET c == CHOOSE x \in names : TRUE
             one == IF IsDir(s, c) THEN copy_tree(st, s, c, fs)
                    ELSE copy_file(st, s[c], c, fs)
         IN CopyNames(one, s, names \ {c}, fs)

-----------------------------------------------------------------------------
(* bcup/diff.py *)

\* File, Symlink and Directory objects: equal when class and path are equal
FileObj(cls, p) == [cls |-> cls, path |-> p]

ClsOf(kind) ==
    CASE kind = "file" -> "File"
      [] kind = "link" -> "Symlink"
      [] kind = "dir" -> "Directory"

\* the path string of an object as character codes, in the order of the
\* characters; Directory paths end in the separator
CharCode(c) ==
    CASE c = "/" -> 1
      [] c = "?" -> 2
      [] c = "a" -> 3
      [] c = "b" -> 4
      [] c = "q" -> 5
      [] c = "t" -> 6
      [] c = "z" -> 7

RECURSIVE JoinNames(_)
JoinNames(p) ==
    IF p = <<>> THEN <<>>
    ELSE IF Len(p) = 1 THEN NameChars(p[1])
    ELSE NameChars(p[1]) \o <<"/">> \o JoinNames(Tail(p))

PathStr(f) ==
    JoinNames(f.path) \o (IF f.cls = "Directory" THEN <<"/">> ELSE <<>>)

\* plain string comparison
StrLess(s, t) ==
    \E i \in 1..(Len(s) + 1) :
        /\ i <= Len(t)
        /\ \A j \in 1..(i - 1) : s[j] = t[j]
        /\ i = Len(s) + 1 \/ CharCode(s[i]) < CharCode(t[i])

\* paths.sort() over the path strings of a set of objects
RECURSIVE SortPaths(_)
SortPaths(files) ==
    IF files = {} THEN <<>>
    ELSE LET f == CHOOSE x \in files :
                     \A y \in files : ~StrLess(PathStr(y), PathStr(x))
         IN <<f>> \o SortPaths(files \ {f})

Reverse(s) == [i \in 1..Len(s) |-> s[Len(s) + 1 - i]]

\* the body of the copy loop of copy_files for one path
CopyOne(st, s, f, fs) ==
    LET p == f.path
        slash == f.cls = "Directory"
        e == Get(s, p)
        dirs == ensure_dir(st, IF slash THEN p ELSE Parent(p))
    IN IF fs # "nofs" /\ ~is_path_allowed(fs, RootNames) THEN st
       ELSE IF dirs.err # "ok" THEN dirs
       ELSE IF ~slash /\ e.kind \in {"link", "file"} THEN copy2(dirs, e, p)
       ELSE IF e.kind = "dir"
            THEN IF IsDir(dirs.t, p) \/ (~slash /\ Exists(dirs.t, p)) THEN dirs
                 ELSE Mkdir(dirs, p)
       ELSE dirs

RECURSIVE CopyLoop(_, _, _, _)
CopyLoop(st, s, paths, fs) ==
    IF paths = <<>> \/ st.err # "ok" THEN st
    ELSE CopyLoop(CopyOne(st, s, Head(paths), fs), s, Tail(paths), fs)

\* diff.copy_files(files, src, dst, dst_fs)
copy_files(st, files, s, fs) == CopyLoop(st, s, SortPaths(files), fs)

\* the body of the removing loop of remove_files for one path
RemoveOne(st, f) ==
    LET p == f.path
        slash == f.cls = "Directory"
        e == Get(st.t, p)
    IN IF slash
       THEN IF e.kind = "dir" /\ Children(st.t, p) = {} THEN Put(st, p, NoEnt) ELSE st
       ELSE IF e.kind \in {"link", "file"} THEN Put(st, p, NoEnt)
       ELSE IF e.kind = "dir" /\ Children(st.t, p) = {} THEN Put(st, p, NoEnt)
       ELSE st

RECURSIVE RemoveLoop(_, _)
RemoveLoop(st, paths) ==
    IF paths = <<>> \/ st.err # "ok" THEN st
    ELSE RemoveLoop(RemoveOne(st, Head(paths)), Tail(paths))

\* remove_files without reverse=True: the paths in ascending order
remove_files_ascending(st, files) == RemoveLoop(st, SortPaths(files))

\* diff.remove_files(files, root)
remove_files(st, files) == RemoveLoop(st, Reverse(SortPaths(files)))

\* diff.unpack_files: the path strings
unpack_files(files) == {PathStr(f) : f \in files}

\* diff.collect_paths and diff.collect_paths_in_tar
collect_paths(t) ==
    {FileObj(ClsOf(t[p].kind), p) : p \in {x \in Paths : t[x].kind # "none"}}

\* diff.filter_changed_files and diff.filter_changed_files_in_tar: t1 is the
\* source, t2 the last backup; lost holds the paths whose content cannot be
\* read any more when the comparison reaches them
filter_changed_files(files, t1, t2, lost) ==
    [err |-> IF \E f \in files : f.cls # "Directory" /\ f.path \in lost
             THEN "error" ELSE "ok",
     set |-> {f \in files : f.cls # "Directory" /\ t1[f.path].val # t2[f.path].val}]

-----------------------------------------------------------------------------
(* bcup/backup.py *)

Methods == {"full", "last", "diff"}

\* a directory or archive that does not exist
Absent == [ex |-> FALSE, t |-> EmptyTree]
Present(t) == [ex |-> TRUE, t |-> t]
NoInfo == [ex |-> FALSE, added |-> {}, removed |-> {}, changed |-> {}]

\* a snapshot directory as utils.ensure_dir(self.path) creates it
EmptySnap == [data |-> Absent, tar |-> Absent, info |-> NoInfo]

\* None, for a key
NoKey == 0

SetMax(S) == CHOOSE x \in S : \A y \in S : y <= x

\* _get_last_key that ignores the depth and returns the greatest key
get_last_key_greatest(keys, depth) ==
    IF Cardinality(keys) < depth THEN NoKey ELSE SetMax(keys)

\* BaseBackup._get_last_key: the depth-th greatest key of the repository r
RECURSIVE get_last_key(_, _)
get_last_key(keys, depth) ==
    IF Cardinality(keys) < depth THEN NoKey
    ELSE IF depth = 1 THEN SetMax(keys)
    ELSE get_last_key(keys \ {SetMax(keys)}, depth - 1)

\* BaseBackup._prepare: the key of datetime.now(), later than every key made
new_key(r) == IF DOMAIN r = {} THEN 1 ELSE SetMax(DOMAIN r) + 1

\* DiffOf with `same = similar': the changed entries are not taken out of same
DiffOfSameKeepsChanged(paths, last_paths, changed) ==
    [err |-> changed.err,
     added |-> paths \ last_paths,
     removed |-> last_paths \ paths,
     changed |-> changed.set,
     same |-> last_paths \cap paths]

\* DiffOf with entries told apart by their path alone, whatever their kind
DiffOfByPath(paths, last_paths, changed) ==
    [err |-> changed.err,
     added |-> {f \in paths : \A g \in last_paths : g.path # f.path},
     removed |-> {g \in last_paths : \A f \in paths : f.path # g.path},
     changed |-> changed.set,
     same |-> {f \in paths : \E g \in last_paths : g.path = f.path} \ changed.set]

\* the set algebra of _create_diff_map and _create_diff_map_in_tar
DiffOf(paths, last_paths, changed) ==
    [err |-> changed.err,
     added |-> paths \ last_paths,
     removed |-> last_paths \ paths,
     changed |-> changed.set,
     same |-> (last_paths \cap paths) \ changed.set]

\* BaseBackup._create_diff_map: os.walk of a missing directory yields nothing
create_diff_map(data, paths, s, lost) ==
    LET last_paths == IF data.ex THEN collect_paths(data.t) ELSE {}
    IN DiffOf(paths, last_paths,
              filter_changed_files(last_paths \cap paths, s, data.t, lost))

\* BaseBackup._create_diff_map_in_tar: tarfile.open raises on a missing archive
create_diff_map_in_tar(tar, paths, s, lost) ==
    LET last_paths == collect_paths(tar.t)
        d == DiffOf(paths, last_paths,
                    filter_changed_files(last_paths \cap paths, s, tar.t, lost))
    IN IF tar.ex THEN d ELSE [d EXCEPT !.err = "error"]

\* BaseBackup._build_diff_map
build_diff_map(c, s, r, lost) ==
    LET paths == {f \in collect_paths(s) : is_path_allowed(c.fs, f.path)}
        last_key == get_last_key(DOMAIN r, 1)
    IN IF last_key # NoKey
       THEN IF c.compress /\ c.method # "diff"
            THEN create_diff_map_in_tar(r[last_key].tar, paths, s, lost)
            ELSE create_diff_map(r[last_key].data, paths, s, lost)
       ELSE [err |-> "ok", added |-> paths, removed |-> {}, changed |-> {},
             same |-> {}]

\* has_changes that counts the entries found the same
has_changes_counts_same(dm) ==
    dm.added # {} \/ dm.removed # {} \/ dm.changed # {} \/ dm.same # {}

\* BaseBackup._has_changes
has_changes(dm) == dm.added # {} \/ dm.removed # {} \/ dm.changed # {}

\* utils.copy_tree(self.source.source, self.data_path, dst_fs): os.mkdir raises
\* on an existing data directory
CopyTreeInto(snap, s, fs) ==
    IF snap.data.ex THEN [snap |-> snap, err |-> "error"]
    ELSE LET Copied(st) == [snap |-> [snap EXCEPT !.data = Present(st.t)], err |-> st.err]
         IN Copied(copy_tree(Ok(EmptyTree), s, <<>>, fs))

\* PlainCopyMixin._copy_data
PlainCopy(c, s, r, key) ==
    IF c.compress
    THEN [repo |-> [r EXCEPT ![key].tar = Present(s)], err |-> "ok"]
    ELSE LET Placed(cp) == [repo |-> [r EXCEPT ![key] = cp.snap], err |-> cp.err]
         IN Placed(CopyTreeInto(r[key], s, c.fs))

\* DiffSteps with the delta copied after the new data was updated from the source
DiffStepsDeltaLate(c, s, old, dm) ==
    LET Result(p2, d3) ==
            [prev |-> p2.t, data |-> d3.t, err |-> d3.err,
             packed |-> c.compress /\ d3.err = "ok"]
        Removed(d2, p2) ==
            Result(p2, IF p2.err = "ok" THEN remove_files(d2, dm.removed)
                       ELSE [t |-> d2.t, err |-> p2.err])
        Delta(d2) ==
            Removed(d2,
                    copy_files(IF d2.err = "ok"
                               THEN copy_files(Ok(EmptyTree), dm.changed, d2.t, c.fs)
                               ELSE [t |-> EmptyTree, err |-> d2.err],
                               dm.removed, d2.t, c.fs))
    IN Delta(copy_files(copy_files(Ok(old), dm.added, s, c.fs), dm.changed, s, c.fs))

\* DiffCopyMixin._copy_data, the branch with a previous backup: old is the
\* data moved from the previous backup; the result holds the previous
\* backup's new data (prev), the new backup's data (data) and whether the
\* previous backup's data got archived (packed)
DiffSteps(c, s, old, dm) ==
    LET Result(p2, d3) ==
            [prev |-> p2.t, data |-> d3.t, err |-> d3.err,
             packed |-> c.compress /\ d3.err = "ok"]
        Update(p2) ==
            Result(p2,
                   remove_files(
                       copy_files(IF p2.err = "ok"
                                  THEN copy_files(Ok(old), dm.added, s, c.fs)
                                  ELSE [t |-> old, err |-> p2.err],
                                  dm.changed, s, c.fs),
                       dm.removed))
    IN Update(copy_files(copy_files(Ok(EmptyTree), dm.changed, old, c.fs),
                         dm.removed, old, c.fs))

\* DiffCopyMixin._copy_data; os.rename raises when the previous backup has no
\* data directory and when the new one already holds a non-empty one; when
\* the previous key is the key itself os.rename does nothing and os.mkdir
\* raises on the directory that is still there
DiffCopy(c, s, r, key, dm) ==
    LET Moved(prev_key, ds) ==
            [repo |-> [r EXCEPT
                ![key].data = Present(ds.data),
                ![prev_key].data = IF ds.packed THEN Absent ELSE Present(ds.prev),
                ![prev_key].tar = IF ds.packed THEN Present(ds.prev) ELSE @],
             err |-> ds.err]
        First(cp) == [repo |-> [r EXCEPT ![key] = cp.snap], err |-> cp.err]
        Branch(prev_key) ==
            IF prev_key # NoKey
            THEN IF \/ ~r[prev_key].data.ex
                    \/ prev_key = key
                    \/ (r[key].data.ex /\ r[key].data.t # EmptyTree)
                 THEN [repo |-> r, err |-> "error"]
                 ELSE Moved(prev_key, DiffSteps(c, s, r[prev_key].data.t, dm))
            ELSE First(CopyTreeInto(r[key], s, c.fs))
    IN Branch(get_last_key(DOMAIN r, 2))

\* the method's mixin, as create_backup_from_source composes the class
copy_data(c, s, r, key, dm) ==
    IF c.method = "diff" THEN DiffCopy(c, s, r, key, dm) ELSE PlainCopy(c, s, r, key)

\* BaseBackup._prepare_info and _save_info
save_info(r, key, dm) ==
    [r EXCEPT ![key].info = [ex |-> TRUE,
                             added |-> unpack_files(dm.added),
                             removed |-> unpack_files(dm.removed),
                             changed |-> unpack_files(dm.changed)]]

Restrict(r, keys) == [k \in keys |-> r[k]]

\* LastExtraMixin._remove_extra
LastExtra(r, key) == Restrict(r, DOMAIN r \cap {key})

\* keys[:n] of the sorted keys: the n smallest
RECURSIVE Smallest(_, _)
Smallest(keys, n) ==
    IF n <= 0 \/ keys = {} THEN {}
    ELSE LET m == CHOOSE x \in keys : \A y \in keys : x <= y
         IN {m} \cup Smallest(keys \ {m}, n - 1)

\* FullExtra with keys[:len(keys) - limit - 1]: one snapshot too many is kept
FullExtraKeepsOneMore(c, r) ==
    IF c.limit # 0 /\ Cardinality(DOMAIN r) > c.limit
    THEN Restrict(r, DOMAIN r \ Smallest(DOMAIN r, Cardinality(DOMAIN r) - c.limit - 1))
    ELSE r

\* FullExtra with keys[:1]: the oldest snapshot only is deleted
FullExtraRemovesOne(c, r) ==
    IF c.limit # 0 /\ Cardinality(DOMAIN r) > c.limit
    THEN Restrict(r, DOMAIN r \ Smallest(DOMAIN r, 1))
    ELSE r

\* FullExtra with keys[limit:] removed: the oldest snapshots are the ones kept
FullExtraKeepsOldest(c, r) ==
    IF c.limit # 0 /\ Cardinality(DOMAIN r) > c.limit
    THEN Restrict(r, Smallest(DOMAIN r, c.limit))
    ELSE r

\* FullExtraMixin._remove_extra; limit 0 stands for None
FullExtra(c, r) ==
    IF c.limit # 0 /\ Cardinality(DOMAIN r) > c.limit
    THEN Restrict(r, DOMAIN r \ Smallest(DOMAIN r, Cardinality(DOMAIN r) - c.limit))
    ELSE r

\* remove_extra with LastExtraMixin for every method
remove_extra_all_but_new(c, r, key) == LastExtra(r, key)

\* the method's mixin, as create_backup_from_source composes the class
remove_extra(c, r, key) ==
    IF c.method = "last" THEN LastExtra(r, key) ELSE FullExtra(c, r)

\* utils.ensure_dir(self.path)
EnsureKeyDir(r, key) ==
    [k \in DOMAIN r \cup {key} |-> IF k \in DOMAIN r THEN r[k] ELSE EmptySnap]

\* make with utils.ensure_dir(self.path) moved before self._build_diff_map()
makeDirBeforeDiff(c, s, r, lost) ==
    LET Finish(key, dm, cp) ==
            IF cp.err # "ok"
            THEN [repo |-> cp.repo,
                  status |-> IF cp.err = "oob" THEN "oob" ELSE "copy_error",
                  key |-> key, diff |-> dm]
            ELSE [repo |-> remove_extra(c, save_info(cp.repo, key, dm), key),
                  status |-> "created", key |-> key, diff |-> dm]
        Run(key, dm, dir) ==
            IF dm.err # "ok"
            THEN [repo |-> dir, status |-> "diff_error", key |-> key, diff |-> dm]
            ELSE IF ~has_changes(dm)
            THEN [repo |-> dir, status |-> "nochange", key |-> key, diff |-> dm]
            ELSE Finish(key, dm, copy_data(c, s, dir, key, dm))
        Prepared(key) ==
            Run(key, build_diff_map(c, s, r, lost), EnsureKeyDir(r, key))
    IN Prepared(new_key(r))

\* BaseBackup.make with the key _prepare built: status is "nochange" (no
\* difference, nothing done), "created" (it returned after _remove_extra),
\* "diff_error" (_build_diff_map raised) or "copy_error" (_copy_data raised)
make_at(c, s, r, lost, k) ==
    LET Finish(key, dm, cp) ==
            IF cp.err # "ok"
            THEN [repo |-> cp.repo,
                  status |-> IF cp.err = "oob" THEN "oob" ELSE "copy_error",
                  key |-> key, diff |-> dm]
            ELSE [repo |-> remove_extra(c, save_info(cp.repo, key, dm), key),
                  status |-> "created", key |-> key, diff |-> dm]
        Run(key, dm) ==
            IF dm.err # "ok"
            THEN [repo |-> r, status |-> "diff_error", key |-> key, diff |-> dm]
            ELSE IF ~has_changes(dm)
            THEN [repo |-> r, status |-> "nochange", key |-> key, diff |-> dm]
            ELSE Finish(key, dm, copy_data(c, s, EnsureKeyDir(r, key), key, dm))
    IN Run(k, build_diff_map(c, s, r, lost))

\* BaseBackup.make at a time whose key is greater than every key made
make(c, s, r, lost) == make_at(c, s, r, lost, new_key(r))

-----------------------------------------------------------------------------
(* One source and its repository: main-once.py run again and again *)

\* the configurations of a Source; the retention limit counts for the methods
\* that use FullExtraMixin only
Configs ==
    {c \in [method : Methods, compress : BOOLEAN, limit : {0, 1}, fs : FsKinds] :
        c.method = "last" => c.limit = 0}

NoDiff == [err |-> "ok", added |-> {}, removed |-> {}, changed |-> {}, same |-> {}]

\* no make() has run since the source was last edited
NoRun == [status |-> "none", key |-> NoKey, diff |-> NoDiff, pre |-> <<>>]

\* no Manager is running
IdleSched == [jobs |-> <<>>, run_map |-> <<>>, now |-> 0, pos |-> 0,
              running |-> FALSE, errors |-> 0, visited |-> {}, raised |-> {},
              ev |-> [name |-> "", outcome |-> "none", at |-> 0]]
\* no make() is in progress
NoStep == [todo |-> <<>>, key |-> NoKey, prev |-> NoKey, diff |-> NoDiff,
           lost |-> {}, cut |-> "", fresh |-> FALSE, cuts |-> 0]

\* no key is being built
NoCase == [fmt |-> <<>>, t1 |-> 0, t2 |-> 0, k1 |-> <<>>, k2 |-> <<>>, done |-> FALSE]

Init ==
    /\ cfg \in Configs
    /\ src \in SourceTrees
    /\ repo = <<>>
    /\ hist = <<>>
    /\ last = NoRun
    /\ sched = IdleSched
    /\ kcase = NoCase
    /\ run = NoStep

\* the user edits the source directory
ChangeSource(t) ==
    /\ t # src
    /\ src' = t
    /\ last' = NoRun
    /\ UNCHANGED <<cfg, repo, hist, sched, kcase, run>>

\* the paths whose content is not readable when the comparison of one run
\* reaches them: none, or one file or link of the source
LostSets(s) == {{}} \cup {{p} : p \in {x \in Paths : s[x].kind \in {"file", "link"}}}

\* backup.make() for the source; a run that creates a key directory needs a
\* key within MaxKey
Make(lost) ==
    LET Returned(m) ==
            /\ m.status \in {"created", "copy_error", "oob"} => m.key <= MaxKey
            /\ repo' = m.repo
            /\ hist' = [k \in DOMAIN m.repo |->
                           IF k \in DOMAIN repo THEN hist[k] ELSE src]
            /\ last' = [status |-> m.status, key |-> m.key, diff |-> m.diff,
                        pre |-> repo]
            /\ UNCHANGED <<cfg, src, sched, kcase, run>>
    IN Returned(make(cfg, src, repo, lost))

Next ==
    \/ \E t \in SourceTrees : ChangeSource(t)
    \/ \E lost \in LostSets(src) : Make(lost)

Spec == Init /\ [][Next]_vars

\* every path the model writes is one of Paths
NoOob == last.status # "oob"

-----------------------------------------------------------------------------
(* What the claims speak of *)

\* what a snapshot stores: its loose data directory, else its archive
Stored(snap) == IF snap.data.ex THEN snap.data.t ELSE snap.tar.t

\* a tree without the entries whose path the target file system forbids
AllowedPart(fs, t) ==
    [p \in Paths |-> IF is_path_allowed(fs, p) THEN t[p] ELSE NoEnt]

\* the path string of the entry a tree holds at p
EntryStr(t, p) == PathStr(FileObj(ClsOf(t[p].kind), p))

\* the key the diff of the last run was computed against
PrevKey == get_last_key(DOMAIN last.pre, 1)

\* the catalogs the last run compared
CurrentCatalog == {f \in collect_paths(src) : is_path_allowed(cfg.fs, f.path)}
PreviousCatalog ==
    IF PrevKey = NoKey THEN {}
    ELSE IF cfg.compress /\ cfg.method # "diff"
         THEN collect_paths(last.pre[PrevKey].tar.t)
         ELSE collect_paths(last.pre[PrevKey].data.t)

\* every make() so far returned normally: each snapshot directory has its info
AllRunsOk == \A k \in DOMAIN repo : repo[k].info.ex

\* one step backward along the chain: from the tree of snapshot j, drop what
\* j's info records as added and put back what the older snapshot's delta holds
UndoStep(t, info, delta) ==
    [p \in Paths |->
        IF delta[p].kind # "none" THEN delta[p]
        ELSE IF t[p].kind # "none" /\ EntryStr(t, p) \in info.added THEN NoEnt
        ELSE t[p]]

\* the tree of snapshot k rebuilt from the newest data directory
RECURSIVE Reconstruct(_, _)
Reconstruct(r, k) ==
    LET newer == {j \in DOMAIN r : j > k}
    IN IF newer = {} THEN Stored(r[k])
       ELSE LET j == CHOOSE x \in newer : \A y \in newer : x <= y
            IN UndoStep(Reconstruct(r, j), r[j].info, Stored(r[k]))

-----------------------------------------------------------------------------
(* C1..C5, C7..C9: the snapshot engine *)

\* C1 (as claimed): with the delta-chain method, after runs that all succeeded,
\* every snapshot k of the repository is rebuilt, from the newest data directory
\* and the deltas of the snapshots between, as the source tree was when k was
\* made (the entries the target file system allows).
C1_RoundTrip ==
    (cfg.method = "diff" /\ AllRunsOk) =>
        \A k \in DOMAIN repo : Reconstruct(repo, k) = AllowedPart(cfg.fs, hist[k])

\* C2 (as claimed): a delta-chain make() that creates snapshot N leaves N's
\* data directory equal to the current source tree (the entries the target
\* file system allows), whatever changed since the previous snapshot.
C2_DataEqualsSource ==
    (cfg.method = "diff" /\ last.status = "created") =>
        repo[last.key].data = Present(AllowedPart(cfg.fs, src))

\* C3 (as claimed): a make() right after a make() that created a snapshot, with
\* the source untouched, finds no difference and leaves the repository as it is.
C3_Idempotent ==
    last.status = "created" =>
        LET again == make(cfg, src, repo, {})
        IN /\ ~has_changes(again.diff)
           /\ again.status = "nochange"
           /\ again.repo = repo

\* C4: a make() with keep-last-N retention that creates a snapshot leaves at
\* most N snapshot directories, the one just created among them.
C4_Retention ==
    (cfg.method \in {"full", "diff"} /\ cfg.limit # 0 /\ last.status = "created") =>
        /\ Cardinality(DOMAIN repo) <= cfg.limit
        /\ last.key \in DOMAIN repo

\* C4 witness: a run that created a snapshot in a repository already at its limit
C4_Witness ==
    /\ cfg.method \in {"full", "diff"} /\ cfg.limit # 0 /\ last.status = "created"
    /\ Cardinality(DOMAIN last.pre) >= cfg.limit
    /\ last.key \in DOMAIN repo

\* C5: the diff map's added, removed, changed and same sets are pairwise
\* disjoint, their union is previous \cup current, added is current minus
\* previous and removed is previous minus current.
C5_Partition ==
    last.status \in {"nochange", "created", "copy_error"} =>
        LET d == last.diff
        IN /\ d.added \cap d.removed = {}
           /\ d.added \cap d.changed = {}
           /\ d.added \cap d.same = {}
           /\ d.removed \cap d.changed = {}
           /\ d.removed \cap d.same = {}
           /\ d.changed \cap d.same = {}
           /\ d.added \cup d.removed \cup d.changed \cup d.same
                = PreviousCatalog \cup CurrentCatalog
           /\ d.added = CurrentCatalog \ PreviousCatalog
           /\ d.removed = PreviousCatalog \ CurrentCatalog

\* C5 witness: a diff whose added and removed sets hold entries of one path
\* string, of different kinds
C5_Witness ==
    /\ last.status \in {"nochange", "created", "copy_error"}
    /\ \E f \in last.diff.added, g \in last.diff.removed : PathStr(f) = PathStr(g)

\* C7 (as claimed): a make() with method last that finds changes leaves exactly
\* one snapshot directory, the one just made, storing the current source tree
\* (the entries the target file system allows).
C7_Mirror ==
    (cfg.method = "last" /\ last.status # "none" /\ has_changes(last.diff)
        /\ last.status # "diff_error") =>
        /\ DOMAIN repo = {last.key}
        /\ Stored(repo[last.key]) = AllowedPart(cfg.fs, src)

\* the previous snapshot's data before the last run, and the objects the
\* last run's diff lists as changed or removed
OldData == last.pre[PrevKey].data.t
DeltaObjs == last.diff.changed \cup last.diff.removed

\* a delta-chain run created a snapshot over a previous one that is still there
DeltaMade ==
    /\ cfg.method = "diff" /\ last.status = "created"
    /\ PrevKey # NoKey /\ PrevKey \in DOMAIN repo

\* C8 (as claimed): after a delta-chain make() that creates N over N-1, what
\* N-1 stores is exactly the changed and removed entries, as N-1 had them,
\* and no other entry.
C8_ExactDelta ==
    DeltaMade =>
        Stored(repo[PrevKey]) =
            [p \in Paths |->
                IF \E f \in DeltaObjs : f.path = p THEN OldData[p] ELSE NoEnt]

\* C8 (amended): ... exactly the changed and removed entries, as N-1 had them,
\* and the directories above them, and no other entry.
C8_DeltaWithParents ==
    DeltaMade =>
        Stored(repo[PrevKey]) =
            [p \in Paths |->
                IF \E f \in DeltaObjs : f.path = p THEN OldData[p]
                ELSE IF \E f \in DeltaObjs : Parent(f.path) = p THEN DirEnt
                ELSE NoEnt]

\* C8 witness: a changed file under a directory that did not change
C8_Witness ==
    /\ DeltaMade
    /\ \E f \in last.diff.changed :
          FileObj("Directory", Parent(f.path)) \in last.diff.same

\* C9: a make() whose diff computation raised left the repository as it was.
C9_DiffErrorNoWrite ==
    last.status = "diff_error" => repo = last.pre

\* C9 witness: the diff raised against a repository that holds snapshots
C9_Witness ==
    last.status = "diff_error" /\ DOMAIN repo # {} /\ repo = last.pre

-----------------------------------------------------------------------------
(* bcup/manager.py: Manager.run over two registered sources *)

\* the greatest clock value, in seconds
MaxTime == 3

\* seconds slept between two passes
TIMEOUT == 1

\* self._source_map in insertion order, as main.py adds the sources
Order == <<"s1", "s2">>
Sources == {Order[i] : i \in 1..Len(Order)}

\* source.period
Period(s) == IF s = "s1" THEN 1 ELSE 2

\* the configurations of the two sources
JobCfg(s) ==
    IF s = "s1"
    THEN [method |-> "diff", compress |-> FALSE, limit |-> 0, fs |-> "ext4"]
    ELSE [method |-> "last", compress |-> TRUE, limit |-> 0, fs |-> "ext4"]

\* the source trees of the two sources
ManagerTrees == {Tree(FileEnt(1), NoEnt, NoEnt), Tree(FileEnt(2), NoEnt, NoEnt),
                 Tree(LinkEnt(1), NoEnt, NoEnt)}

\* None, for a time
NoTime == -1

\* Manager.__init__ and Manager.add for each source
ManagerInit ==
    /\ sched \in
        {[jobs |-> [s \in Sources |-> [cfg |-> JobCfg(s), src |-> t[s], repo |-> <<>>]],
          run_map |-> [s \in Sources |-> NoTime],
          now |-> 0, pos |-> 1, running |-> TRUE, errors |-> 0,
          visited |-> {}, raised |-> {},
          ev |-> [name |-> "", outcome |-> "none", at |-> 0]] :
            t \in [Sources -> ManagerTrees]}
    /\ cfg = JobCfg("s1")
    /\ src = EmptyTree
    /\ repo = <<>>
    /\ hist = <<>>
    /\ last = NoRun
    /\ kcase = NoCase
    /\ run = NoStep

\* _is_ready with time() >= last + source.period
is_ready_at_period(sc, s) ==
    sc.run_map[s] = NoTime \/ sc.now >= sc.run_map[s] + Period(s)

\* Manager._is_ready
is_ready(sc, s) ==
    sc.run_map[s] = NoTime \/ sc.now > sc.run_map[s] + Period(s)

\* the try / except / finally of Manager.run for the source s, whose make()
\* gave m and ended at time at, without the except clause: the exception
\* leaves run() after the finally clause
run_source_no_except(sc, s, m, at) ==
    LET raised == m.status \in {"diff_error", "copy_error"}
    IN [sc EXCEPT !.jobs[s].repo = m.repo,
                  !.run_map[s] = at,
                  !.now = at,
                  !.pos = IF raised THEN @ ELSE @ + 1,
                  !.running = ~raised,
                  !.visited = @ \cup {s},
                  !.raised = IF raised THEN @ \cup {s} ELSE @,
                  !.ev = [name |-> s,
                          outcome |-> IF raised THEN "raised" ELSE m.status,
                          at |-> at]]

\* the try / except / finally of Manager.run for the source s, whose make()
\* gave m and ended at time at
run_source(sc, s, m, at) ==
    LET raised == m.status \in {"diff_error", "copy_error"}
    IN [sc EXCEPT !.jobs[s].repo = m.repo,
                  !.errors = IF raised THEN @ + 1 ELSE @,
                  !.run_map[s] = at,
                  !.now = at,
                  !.pos = @ + 1,
                  !.visited = @ \cup {s},
                  !.raised = IF raised THEN @ \cup {s} ELSE @,
                  !.ev = [name |-> s,
                          outcome |-> IF raised THEN "raised" ELSE m.status,
                          at |-> at]]

\* one turn of the for loop, for a source whose period has not passed
Skip ==
    /\ sched.running /\ sched.pos \in 1..Len(Order)
    /\ ~is_ready(sched, Order[sched.pos])
    /\ sched' = [sched EXCEPT !.pos = @ + 1,
                              !.visited = @ \cup {Order[sched.pos]},
                              !.ev = [name |-> Order[sched.pos],
                                      outcome |-> "skip", at |-> sched.now]]
    /\ UNCHANGED <<cfg, src, repo, hist, last, kcase, run>>

\* one turn of the for loop, for a source that is ready: its make() takes d
\* seconds and cannot read the paths of lost
Attempt(lost, d) ==
    LET Turn(s, job) ==
            LET Returned(m) ==
                    /\ m.status \in {"created", "copy_error", "oob"} => m.key <= MaxKey
                    /\ sched' = run_source(sched, s, m, sched.now + d)
            IN /\ is_ready(sched, s)
               /\ lost \in LostSets(job.src)
               /\ sched.now + d <= MaxTime
               /\ Returned(make(job.cfg, job.src, job.repo, lost))
    IN /\ sched.running /\ sched.pos \in 1..Len(Order)
       /\ Turn(Order[sched.pos], sched.jobs[Order[sched.pos]])
       /\ UNCHANGED <<cfg, src, repo, hist, last, kcase, run>>

\* sleep(TIMEOUT) at the end of a pass: the clock of the next pass reads
\* TIMEOUT more, or TIMEOUT and e more for what the sleep and the loop took
\* over it
Sleep(e) ==
    /\ sched.running /\ sched.pos = Len(Order) + 1
    /\ sched.now + TIMEOUT + e <= MaxTime
    /\ sched' = [sched EXCEPT !.now = @ + TIMEOUT + e, !.pos = 1,
                              !.visited = {}, !.raised = {}]
    /\ UNCHANGED <<cfg, src, repo, hist, last, kcase, run>>

\* the user edits the directory of the source s
EditSource(s, t) ==
    /\ sched.running
    /\ t # sched.jobs[s].src
    /\ sched' = [sched EXCEPT !.jobs[s].src = t]
    /\ UNCHANGED <<cfg, src, repo, hist, last, kcase, run>>

ManagerNext ==
    \/ Skip
    \/ \E lost \in SUBSET Paths, d \in {0, 1} : Attempt(lost, d)
    \/ \E e \in {0, 1} : Sleep(e)
    \/ \E s \in Sources, t \in ManagerTrees : EditSource(s, t)

SpecManager == ManagerInit /\ [][ManagerNext]_vars

\* the position of a source in the for loop
IndexOf(s) == CHOOSE i \in 1..Len(Order) : Order[i] = s

\* C10: an error raised by a source's attempt is caught and logged: run() goes
\* on, the failing source's last-run time is the end of that attempt, and at
\* the end of every pass every source has had its turn.
C10_ErrorContained ==
    /\ sched.running
    /\ sched.ev.outcome = "raised" =>
          /\ sched.run_map[sched.ev.name] = sched.ev.at
          /\ sched.errors > 0
    /\ sched.pos = Len(Order) + 1 => sched.visited = Sources
    /\ \A s \in sched.raised : IndexOf(s) < sched.pos /\ sched.run_map[s] # NoTime

\* C10 witness: s1 raised in this pass and s2 was attempted after it
C10_Witness ==
    /\ "s1" \in sched.raised
    /\ sched.ev.name = "s2" /\ sched.ev.outcome \in {"created", "nochange"}
    /\ sched.running

\* this step is a turn of the for loop in which make() was called
Attempted ==
    /\ sched.running /\ sched.pos \in 1..Len(Order)
    /\ sched'.pos = sched.pos + 1
    /\ sched'.ev.outcome # "skip"

\* C23: run() calls make() for a source only when the source was never
\* attempted or more than its period has passed since its last attempt ended;
\* every attempt, whatever its outcome, sets the last-run time to its end; and
\* every source the for loop has passed has been attempted at least once.
C23_PeriodRespected ==
    [][/\ Attempted =>
            LET s == Order[sched.pos]
            IN /\ sched.run_map[s] = NoTime
                    \/ sched.now > sched.run_map[s] + Period(s)
               /\ sched'.ev.name = s
               /\ sched'.run_map[s] = sched'.ev.at
               /\ sched'.ev.at >= sched.now
               /\ \A o \in Sources \ {s} : sched'.run_map[o] = sched.run_map[o]
       /\ ~Attempted => sched'.run_map = sched.run_map
       /\ \A s \in Sources :
            IndexOf(s) < sched'.pos => sched'.run_map[s] # NoTime]_vars

\* C23 witness: s1, of period 1, was attempted again two seconds or more
\* after the start and found no change; its last-run time is the end of that
\* attempt
C23_Witness ==
    /\ sched.running
    /\ sched.ev.name = "s1" /\ sched.ev.outcome = "nochange"
    /\ sched.ev.at >= 2
    /\ sched.run_map["s1"] = sched.ev.at
    /\ DOMAIN sched.jobs["s1"].repo # {}

-----------------------------------------------------------------------------
(* BaseBackup._build_key: the keys of two timestamps under one format *)

\* the letters re.sub turns into strftime directives
FieldLetters == {"Y", "y", "m", "d", "H", "M", "S", "f"}
IsField(c) == c \in FieldLetters

\* the width strftime gives a directive
FieldWidth(c) == IF c = "Y" THEN 4 ELSE IF c = "f" THEN 6 ELSE 2

\* the value of a directive for the datetime dt
FieldValue(c, dt) ==
    CASE c = "Y" -> dt.Y
      [] c = "y" -> dt.Y % 100
      [] c = "m" -> dt.m
      [] c = "d" -> dt.d
      [] c = "H" -> dt.H
      [] c = "M" -> dt.M
      [] c = "S" -> dt.S
      [] c = "f" -> dt.f

RECURSIVE Pow10(_)
Pow10(n) == IF n = 0 THEN 1 ELSE 10 * Pow10(n - 1)

\* the code of a decimal digit, and of the separators a format may hold
DigitCode(d) == 48 + d
LiteralCode(c) == IF c = "-" THEN 45 ELSE 95

\* a number in decimal without leading zeros
RECURSIVE Decimal(_)
Decimal(n) ==
    IF n < 10 THEN <<DigitCode(n)>> ELSE Append(Decimal(n \div 10), DigitCode(n % 10))

\* a directive printed without zero padding
StrfFieldUnpadded(c, dt) == Decimal(FieldValue(c, dt))

\* strftime of one directive: the value in decimal, zero-padded to the width
StrfField(c, dt) ==
    [i \in 1..FieldWidth(c) |->
        DigitCode((FieldValue(c, dt) \div Pow10(FieldWidth(c) - i)) % 10)]

\* BaseBackup._build_key(fmt, dt): the character codes of the key
RECURSIVE BuildKey(_, _)
BuildKey(fmt, dt) ==
    IF fmt = <<>> THEN <<>>
    ELSE (IF IsField(Head(fmt)) THEN StrfField(Head(fmt), dt)
          ELSE <<LiteralCode(Head(fmt))>>) \o BuildKey(Tail(fmt), dt)

\* plain string comparison of two keys
KeyLess(s, t) ==
    \E i \in 1..(Len(s) + 1) :
        /\ i <= Len(t)
        /\ \A j \in 1..(i - 1) : s[j] = t[j]
        /\ i = Len(s) + 1 \/ s[i] < t[i]

\* datetime comparison
TimeTuple(dt) == <<dt.Y, dt.m, dt.d, dt.H, dt.M, dt.S, dt.f>>
TimeLess(a, b) == KeyLess(TimeTuple(a), TimeTuple(b))

\* the timestamps and the formats the model draws from
Times == [Y : {1999, 2000}, m : {9, 10}, d : {1, 2}, H : {0}, M : {0},
          S : {9, 10}, f : {0, 1}]
Formats ==
    {<<"Y", "m", "d", "H", "M", "S", "f">>,
     <<"Y", "-", "m", "-", "d", "_", "H", "M", "S", "f">>,
     <<"Y", "m", "d", "H", "M", "S">>,
     <<"d", "m", "Y", "H", "M", "S", "f">>,
     <<"y", "m", "d", "H", "M", "S", "f">>}

KeyInit ==
    /\ kcase \in [fmt : Formats, t1 : Times, t2 : Times, k1 : {<<>>}, k2 : {<<>>},
                  done : {FALSE}]
    /\ cfg = JobCfg("s1")
    /\ src = EmptyTree
    /\ repo = <<>>
    /\ hist = <<>>
    /\ last = NoRun
    /\ sched = IdleSched
    /\ run = NoStep

\* _prepare builds the key of each of the two timestamps
BuildKeys ==
    /\ ~kcase.done
    /\ kcase' = [kcase EXCEPT !.k1 = BuildKey(kcase.fmt, kcase.t1),
                              !.k2 = BuildKey(kcase.fmt, kcase.t2),
                              !.done = TRUE]
    /\ UNCHANGED <<cfg, src, repo, hist, last, sched, run>>

SpecKey == KeyInit /\ [][BuildKeys]_vars

\* a format that names every field once, from the year down to the microsecond
Chronological(fmt) ==
    SelectSeq(fmt, IsField) = <<"Y", "m", "d", "H", "M", "S", "f">>

\* C6 (as claimed): for timestamps t1 < t2, the key of t1 is less than the key
\* of t2 as a string, whatever the format.
C6_KeyOrder ==
    (kcase.done /\ TimeLess(kcase.t1, kcase.t2)) => KeyLess(kcase.k1, kcase.k2)

\* C6 (amended): for timestamps t1 < t2 and a format whose fields are Y, m, d,
\* H, M, S, f in this order, the key of t1 is less than the key of t2.
C6_KeyOrderChronological ==
    (kcase.done /\ Chronological(kcase.fmt) /\ TimeLess(kcase.t1, kcase.t2)) =>
        KeyLess(kcase.k1, kcase.k2)

\* C6 witness: two keys of a chronological format with separators, for
\* timestamps that differ in the seconds 9 and 10 only
C6_Witness ==
    /\ kcase.done /\ Chronological(kcase.fmt) /\ Len(kcase.fmt) > 7
    /\ kcase.t1.S = 9 /\ kcase.t2 = [kcase.t1 EXCEPT !.S = 10]
    /\ KeyLess(kcase.k1, kcase.k2)

-----------------------------------------------------------------------------
(* BaseBackup.make statement by statement, and interrupted *)

\* the greatest number of interrupted runs in a behaviour
MaxCut == 1

\* CopyProgram with the delta written after the new data was updated
CopyProgramDeltaLate(c, prev_key) ==
    IF c.method = "diff" /\ prev_key # NoKey
    THEN <<"move", "update", "delta">> \o (IF c.compress THEN <<"pack">> ELSE <<>>)
    ELSE <<"copy">>

\* the statements of _copy_data in the order the method's mixin runs them:
\* DiffCopyMixin over a previous backup moves its data (os.rename, os.mkdir),
\* writes the delta (copy_files of changed and of removed), updates the new
\* data (copy_files of added and of changed, remove_files) and archives the
\* delta; every other case is one copy (copy_tree or tar_compress)
CopyProgram(c, prev_key) ==
    IF c.method = "diff" /\ prev_key # NoKey
    THEN <<"move", "delta", "update">> \o (IF c.compress THEN <<"pack">> ELSE <<>>)
    ELSE <<"copy">>

\* Program with self._save_info() before self._copy_data()
ProgramInfoFirst(c, prev_key) ==
    <<"save_info">> \o CopyProgram(c, prev_key) \o <<"remove_extra">>

\* the statements of make() that follow utils.ensure_dir(self.path)
Program(c, prev_key) == CopyProgram(c, prev_key) \o <<"save_info", "remove_extra">>

\* one statement of make() on the repository r
Exec(step, c, s, r, key, prev, dm) ==
    LET Wrote(k, st) == [repo |-> [r EXCEPT ![k].data = Present(st.t)], err |-> st.err]
        First(cp) == [repo |-> [r EXCEPT ![key] = cp.snap], err |-> cp.err]
    IN CASE step = "ensure_dir" -> [repo |-> EnsureKeyDir(r, key), err |-> "ok"]
         [] step = "copy" ->
              IF c.method = "diff" THEN First(CopyTreeInto(r[key], s, c.fs))
              ELSE PlainCopy(c, s, r, key)
         [] step = "move" ->
              IF \/ ~r[prev].data.ex
                 \/ prev = key
                 \/ (r[key].data.ex /\ r[key].data.t # EmptyTree)
              THEN [repo |-> r, err |-> "error"]
              ELSE [repo |-> [r EXCEPT ![key].data = r[prev].data,
                                       ![prev].data = Present(EmptyTree)],
                    err |-> "ok"]
         [] step = "delta" ->
              Wrote(prev, copy_files(copy_files(Ok(r[prev].data.t), dm.changed,
                                                r[key].data.t, c.fs),
                                     dm.removed, r[key].data.t, c.fs))
         [] step = "update" ->
              Wrote(key, remove_files(
                             copy_files(copy_files(Ok(r[key].data.t), dm.added, s, c.fs),
                                        dm.changed, s, c.fs),
                             dm.removed))
         [] step = "pack" ->
              [repo |-> [r EXCEPT ![prev].tar = Present(r[prev].data.t),
                                  ![prev].data = Absent],
               err |-> "ok"]
         [] step = "save_info" -> [repo |-> save_info(r, key, dm), err |-> "ok"]
         [] step = "remove_extra" -> [repo |-> remove_extra(c, r, key), err |-> "ok"]

\* make() runs _prepare and _build_diff_map; run.cut names the statement the
\* run before this one was stopped at, if it was
Begin(lost) ==
    LET Ended(status, key, dm) ==
            /\ last' = [status |-> status, key |-> key, diff |-> dm, pre |-> repo]
            /\ run' = [NoStep EXCEPT !.lost = lost, !.cuts = run.cuts,
                                     !.cut = IF run.fresh THEN run.cut ELSE ""]
        Diffed(key, dm) ==
            IF dm.err # "ok" THEN Ended("diff_error", key, dm)
            ELSE IF ~has_changes(dm) THEN Ended("nochange", key, dm)
            ELSE /\ key <= MaxKey
                 /\ last' = [status |-> "running", key |-> key, diff |-> dm,
                             pre |-> repo]
                 /\ run' = [todo |-> <<"ensure_dir">>, key |-> key, prev |-> NoKey,
                            diff |-> dm, lost |-> lost, cuts |-> run.cuts,
                            fresh |-> FALSE,
                            cut |-> IF run.fresh THEN run.cut ELSE ""]
    IN /\ run.todo = <<>>
       /\ Diffed(new_key(repo), build_diff_map(cfg, src, repo, lost))
       /\ UNCHANGED <<cfg, src, repo, hist, sched, kcase>>

\* make() runs its next statement; an exception ends the run
Step ==
    LET Ended(status) ==
            /\ last' = [last EXCEPT !.status = status]
            /\ run' = [run EXCEPT !.todo = <<>>, !.prev = NoKey, !.diff = NoDiff,
                                  !.key = NoKey]
        Done(step, out) ==
            /\ repo' = out.repo
            /\ IF out.err # "ok"
               THEN Ended(IF out.err = "oob" THEN "oob" ELSE "copy_error")
               ELSE IF step = "remove_extra" THEN Ended("created")
               ELSE IF step = "ensure_dir"
               THEN /\ run' = [run EXCEPT
                                !.prev = get_last_key(DOMAIN out.repo, 2),
                                !.todo = Program(cfg, get_last_key(DOMAIN out.repo, 2))]
                    /\ UNCHANGED last
               ELSE /\ run' = [run EXCEPT !.todo = Tail(@)]
                    /\ UNCHANGED last
    IN /\ run.todo # <<>>
       /\ Done(Head(run.todo),
               Exec(Head(run.todo), cfg, src, repo, run.key, run.prev, run.diff))
       /\ UNCHANGED <<cfg, src, hist, sched, kcase>>

\* the process is stopped after _save_info and before _remove_extra
Interrupt ==
    /\ run.todo = <<"remove_extra">>
    /\ run.cuts < MaxCut
    /\ last' = [last EXCEPT !.status = "interrupted"]
    /\ run' = [run EXCEPT !.todo = <<>>, !.prev = NoKey, !.diff = NoDiff,
                          !.key = NoKey, !.cut = Head(run.todo), !.fresh = TRUE,
                          !.cuts = @ + 1]
    /\ UNCHANGED <<cfg, src, repo, hist, sched, kcase>>

\* the user edits the source directory between two runs
EditBetween(t) == run.todo = <<>> /\ ChangeSource(t)

\* the source trees of the runs followed statement by statement: the entry a
\* absent, a file, a link, or a directory holding the file a/b
StepTrees ==
    {Tree(a, NoEnt, NoEnt) : a \in {NoEnt, FileEnt(1), FileEnt(2), LinkEnt(1), LinkEnt(2)}}
    \cup {Tree(DirEnt, FileEnt(c), NoEnt) : c \in {1, 2}}

\* no tree of StepTrees holds a name a file system forbids
StepInit ==
    /\ cfg \in {c \in Configs : c.fs = "ext4"}
    /\ src \in StepTrees
    /\ repo = <<>>
    /\ hist = <<>>
    /\ last = NoRun
    /\ sched = IdleSched
    /\ kcase = NoCase
    /\ run = NoStep

StepNext ==
    \/ \E lost \in LostSets(src) : Begin(lost)
    \/ Step
    \/ Interrupt
    \/ \E t \in StepTrees : EditBetween(t)

SpecSteps == StepInit /\ [][StepNext]_vars

\* a run that was not interrupted ends as make() says
StepsAgree ==
    (run.todo = <<>> /\ last.status \in {"created", "nochange", "diff_error", "copy_error"}) =>
        LET Same(m) == m.status = last.status /\ m.repo = repo /\ m.diff = last.diff
        IN Same(make(cfg, src, last.pre, run.lost))

-----------------------------------------------------------------------------
(* C11, C14, C17: the statements of a run *)

\* the run after a run that was stopped before _remove_extra has ended
AfterCut == run.todo = <<>> /\ run.cut = "remove_extra" /\ ~run.fresh

\* keep-last-N retention is configured
KeepLastN == cfg.method \in {"full", "diff"} /\ cfg.limit # 0

\* C11 (as claimed): the make() run that follows a run stopped between
\* _save_info and _remove_extra leaves at most N snapshot directories.
C11_NextRunPrunes ==
    (AfterCut /\ KeepLastN /\ last.status \in {"created", "nochange"}) =>
        Cardinality(DOMAIN repo) <= cfg.limit

\* C11 (amended): a run stopped between _save_info and _remove_extra has
\* lost no snapshot: every snapshot directory of before is there, untouched
\* but for the delta the delta-chain method wrote, and the new one is complete;
\* and the next make() that creates a snapshot leaves at most N directories.
C11_NextCreatingRunPrunes ==
    /\ (last.status = "interrupted" /\ run.cut = "remove_extra") =>
          /\ DOMAIN repo = DOMAIN last.pre \cup {last.key}
          /\ repo[last.key].info.ex
          /\ repo[last.key].data.ex \/ repo[last.key].tar.ex
          /\ \A k \in DOMAIN last.pre :
                (cfg.method # "diff" \/ k # PrevKey) => repo[k] = last.pre[k]
    /\ (AfterCut /\ KeepLastN /\ last.status = "created") =>
          Cardinality(DOMAIN repo) <= cfg.limit

\* C11 witness: a snapshot was created over a repository that a stopped run
\* had left above its limit
C11_Witness ==
    /\ AfterCut /\ KeepLastN /\ last.status = "created"
    /\ Cardinality(DOMAIN last.pre) > cfg.limit
    /\ Cardinality(DOMAIN repo) <= cfg.limit

-----------------------------------------------------------------------------
(* C12, C13, C15, C20: the snapshot engine, continued *)

\* C12 (as claimed): no snapshot stores, loose or archived, an entry whose
\* path the target file system rejects, and a first make() never fails.
C12_PathsFiltered ==
    /\ \A k \in DOMAIN repo : \A p \in Paths :
          ~is_path_allowed(cfg.fs, p) =>
              repo[k].data.t[p] = NoEnt /\ repo[k].tar.t[p] = NoEnt
    /\ (DOMAIN last.pre = {} /\ last.status # "none") =>
          last.status \in {"created", "nochange"}


\* C13: a make() whose diff has empty added, removed and changed sets ends
\* there: the repository is left as it was, directory by directory.
C13_NoChangeNoWrite ==
    (last.status \notin {"none", "diff_error"}
        /\ last.diff.added = {} /\ last.diff.removed = {} /\ last.diff.changed = {}) =>
        last.status = "nochange" /\ repo = last.pre

\* C13 witness: a run over a repository with snapshots found every entry the
\* same and left the repository as it was
C13_Witness ==
    /\ last.status = "nochange" /\ last.diff.same # {}
    /\ DOMAIN last.pre # {} /\ repo = last.pre

\* C15: with the full method a make() that creates a snapshot leaves every
\* snapshot it does not delete as it was, deletes whole directories only, and
\* deletes none while the count stays within the limit.
C15_FullKeepsPrevious ==
    (cfg.method = "full" /\ last.status = "created") =>
        /\ \A k \in DOMAIN last.pre \cap DOMAIN repo : repo[k] = last.pre[k]
        /\ DOMAIN repo \subseteq DOMAIN last.pre \cup {last.key}
        /\ last.key \in DOMAIN repo
        /\ (cfg.limit = 0 \/ Cardinality(DOMAIN last.pre) + 1 <= cfg.limit) =>
              DOMAIN last.pre \subseteq DOMAIN repo

\* C15 witness: a file's content changed, and the previous snapshot and the
\* new one are both there, the previous one as it was
C15_Witness ==
    /\ cfg.method = "full" /\ last.status = "created"
    /\ last.diff.changed # {} /\ PrevKey # NoKey
    /\ PrevKey \in DOMAIN repo /\ repo[PrevKey] = last.pre[PrevKey]
    /\ last.key \in DOMAIN repo

\* C20 (as claimed): in a compressed delta-chain repository, after a make()
\* that created a snapshot, the newest snapshot holds loose data and no
\* archive and every older one an archive and no loose data.
C20_HeadLooseRestPacked ==
    (cfg.method = "diff" /\ cfg.compress /\ last.status = "created") =>
        /\ repo[last.key].data.ex /\ ~repo[last.key].tar.ex
        /\ \A k \in DOMAIN repo \ {last.key} :
              repo[k].tar.ex /\ ~repo[k].data.ex

\* the tree the last run compared the source with
PreviousTree ==
    IF PrevKey = NoKey THEN EmptyTree
    ELSE IF cfg.compress /\ cfg.method # "diff" THEN last.pre[PrevKey].tar.t
         ELSE last.pre[PrevKey].data.t

\* the paths that hold an entry of one kind in the previous backup and an
\* entry of another kind in the source
KindReplaced ==
    {p \in Paths : /\ is_path_allowed(cfg.fs, p)
                   /\ PreviousTree[p].kind # "none"
                   /\ src[p].kind # "none"
                   /\ PreviousTree[p].kind # src[p].kind}

\* C22: when a path holds an entry of one kind in the previous backup and of
\* another kind in the source, the diff has the old entry in removed and the
\* new entry in added, and neither of them in changed or same; no directory
\* entry is in changed.
C22_KindIsIdentity ==
    last.status \in {"nochange", "created", "copy_error"} =>
        /\ \A p \in KindReplaced :
              LET old == FileObj(ClsOf(PreviousTree[p].kind), p)
                  new == FileObj(ClsOf(src[p].kind), p)
              IN /\ old \in last.diff.removed
                 /\ new \in last.diff.added
                 /\ {old, new} \cap (last.diff.changed \cup last.diff.same) = {}
        /\ \A f \in last.diff.changed : f.cls # "Directory"

\* C22 witness: the file a of the previous backup is a directory in the
\* source, and a run has compared the two
C22_Witness ==
    /\ last.status \in {"nochange", "created", "copy_error"}
    /\ PreviousTree[<<"a">>].kind = "file" /\ src[<<"a">>].kind = "dir"
    /\ FileObj("File", <<"a">>) \in last.diff.removed
    /\ FileObj("Directory", <<"a">>) \in last.diff.added

-----------------------------------------------------------------------------
(* C14, C17: the order of the statements of a run *)

\* the statements the run has still to do
Pending == {run.todo[i] : i \in 1..Len(run.todo)}

\* a step writes the data of the snapshot k, or deletes a snapshot directory
WritesData(k) ==
    /\ k \in DOMAIN repo'
    /\ repo'[k].data # repo[k].data \/ repo'[k].tar # repo[k].tar
Deletes == \E k \in DOMAIN repo : k \notin DOMAIN repo'

\* C14 (as claimed): no step of a run writes the data of a snapshot that has
\* its info (so a snapshot with info has its data completely written), and no
\* step deletes a snapshot directory before the new snapshot has its info.
C14_InfoMeansDataDone ==
    [][/\ \A k \in DOMAIN repo : repo[k].info.ex => ~WritesData(k)
       /\ Deletes => (run.key \in DOMAIN repo /\ repo[run.key].info.ex)]_vars

\* C14 (amended): the same, but for the snapshot a delta-chain run moves its
\* data from: that one keeps its info while its data is rewritten as a delta.
C14_NewInfoMeansDataDone ==
    [][/\ \A k \in DOMAIN repo :
            (repo[k].info.ex /\ ~(cfg.method = "diff" /\ k = run.prev)) =>
                ~WritesData(k)
       /\ \A k \in DOMAIN repo' :
            (repo'[k].info.ex /\ (k \notin DOMAIN repo \/ ~repo[k].info.ex)) =>
                /\ k = run.key
                /\ repo[k].data.ex \/ repo[k].tar.ex
                /\ Pending \cap {"copy", "move", "delta", "update", "pack"} = {}
       /\ Deletes => (run.key \in DOMAIN repo /\ repo[run.key].info.ex)]_vars

\* C14 witness: a delta-chain run has written the new snapshot's info after
\* its data and has retention left to do, over a previous snapshot with info
C14_Witness ==
    /\ cfg.method = "diff" /\ run.todo = <<"remove_extra">>
    /\ repo[run.key].info.ex /\ repo[run.key].data.ex
    /\ run.prev # NoKey /\ repo[run.prev].info.ex

\* a delta-chain run over a previous backup has moved the data
InDeltaRun ==
    /\ cfg.method = "diff" /\ run.todo # <<>> /\ run.prev # NoKey
    /\ Pending \cap {"ensure_dir", "move"} = {}

\* C17: when the new data is about to be updated from the source it is still
\* the moved data and the delta already holds the changed entries as the moved
\* data has them; from then on the delta holds, for every changed file, the
\* old content and not the content of the source.
C17_DeltaReadsOldData ==
    /\ (InDeltaRun /\ Head(run.todo) = "update") =>
          /\ repo[run.key].data = last.pre[run.prev].data
          /\ \A f \in run.diff.changed :
                repo[run.prev].data.t[f.path] = last.pre[run.prev].data.t[f.path]
    /\ (InDeltaRun /\ "delta" \notin Pending) =>
          \A f \in run.diff.changed :
              /\ Stored(repo[run.prev])[f.path] = last.pre[run.prev].data.t[f.path]
              /\ Stored(repo[run.prev])[f.path] # src[f.path]

\* C17 witness: the delta of a run with a changed file is written and the
\* update of the new data is next
C17_Witness ==
    /\ InDeltaRun /\ Head(run.todo) = "update"
    /\ run.diff.changed # {}
    /\ \A f \in run.diff.changed :
          repo[run.prev].data.t[f.path] = last.pre[run.prev].data.t[f.path]

\* the retention statement of a keep-last-N run is about to delete
Prunes ==
    /\ KeepLastN
    /\ run.todo = <<"remove_extra">>
    /\ Cardinality(DOMAIN repo) > cfg.limit

\* C21: under the methods full and diff, when more than N snapshot
\* directories exist after a snapshot is created, _remove_extra deletes the
\* count - N smallest keys, whole directories, and leaves the N greatest
\* untouched; no other statement of make() deletes a directory, and without
\* a limit none does.
C21_RetentionOldest ==
    [][cfg.method \in {"full", "diff"} =>
          /\ (Prunes /\ last'.status = "created") =>
                /\ DOMAIN repo' \subseteq DOMAIN repo
                /\ Cardinality(DOMAIN repo') = cfg.limit
                /\ \A d \in DOMAIN repo \ DOMAIN repo', k \in DOMAIN repo' : d < k
                /\ \A k \in DOMAIN repo' : repo'[k] = repo[k]
          /\ Deletes => (Prunes /\ last'.status = "created")]_vars

\* C21 witness: retention with N = 1 has deleted the two oldest of three
\* snapshot directories and kept the new one
C21_Witness ==
    /\ KeepLastN /\ run.todo = <<>> /\ last.status = "created"
    /\ Cardinality(DOMAIN last.pre) = cfg.limit + 1
    /\ DOMAIN repo = {last.key}
    /\ \A d \in DOMAIN last.pre : d < last.key
    /\ repo[last.key].info.ex

-----------------------------------------------------------------------------
(* bcup/source.py: the names of two sources *)

\* the characters of the source directories the model draws from
PathChars == {"/", "_", "a"}

\* absolute source directories of four characters
SourceDirs == {d \in [1..4 -> PathChars] : d[1] = "/"}

\* Source._build_name: source.replace('/', '_')
build_name(source) ==
    [i \in 1..Len(source) |-> IF source[i] = "/" THEN "_" ELSE source[i]]

\* Source.__init__: self.path = os.path.join(target, name); a name holds no
\* separator, so the join appends it
source_path(target, name) == target \o <<"/">> \o name

\* the target directory of both sources
Target == <<"/", "t">>

NameInit ==
    /\ kcase \in [s1 : SourceDirs, s2 : SourceDirs, n1 : {<<>>}, n2 : {<<>>},
                  done : {FALSE}]
    /\ cfg = JobCfg("s1")
    /\ src = EmptyTree
    /\ repo = <<>>
    /\ hist = <<>>
    /\ last = NoRun
    /\ sched = IdleSched
    /\ run = NoStep

\* Source.from_config_params for both sources of the configuration
BuildNames ==
    /\ ~kcase.done
    /\ kcase' = [kcase EXCEPT !.n1 = build_name(kcase.s1),
                              !.n2 = build_name(kcase.s2),
                              !.done = TRUE]
    /\ UNCHANGED <<cfg, src, repo, hist, last, sched, run>>

SpecName == NameInit /\ [][BuildNames]_vars

\* C16 (as claimed): two different source directories get different names
\* and different repository paths under one target.
C16_NamesUnique ==
    (kcase.done /\ kcase.s1 # kcase.s2) =>
        /\ kcase.n1 # kcase.n2
        /\ source_path(Target, kcase.n1) # source_path(Target, kcase.n2)

-----------------------------------------------------------------------------
(* diff.remove_files on its own *)

\* the directory trees remove_files is applied to: every tree over the paths
\* a, a/a and a/b whose members lie in a directory
RemoveTrees ==
    {t \in [Paths -> {NoEnt, DirEnt, FileEnt(1), LinkEnt(1)}] :
        /\ \A p \in {<<"q?">>, <<"z">>, <<"a", "z">>} : t[p] = NoEnt
        /\ \A p \in Paths : (Len(p) = 2 /\ t[p] # NoEnt) => t[Parent(p)] = DirEnt}

\* the file objects a removed set is made of
RemoveObjs ==
    {FileObj(cls, p) : cls \in {"File", "Symlink", "Directory"},
                       p \in {<<"a">>, <<"a", "a">>, <<"a", "b">>}}

RemoveInit ==
    /\ kcase \in [tree : RemoveTrees, files : SUBSET RemoveObjs,
                  out : {Ok(EmptyTree)}, done : {FALSE}]
    /\ cfg = JobCfg("s1")
    /\ src = EmptyTree
    /\ repo = <<>>
    /\ hist = <<>>
    /\ last = NoRun
    /\ sched = IdleSched
    /\ run = NoStep

\* diff.remove_files(files, root) on the directory root
RemoveFiles ==
    /\ ~kcase.done
    /\ kcase' = [kcase EXCEPT !.out = remove_files(Ok(kcase.tree), kcase.files),
                              !.done = TRUE]
    /\ UNCHANGED <<cfg, src, repo, hist, last, sched, run>>

SpecRemove == RemoveInit /\ [][RemoveFiles]_vars

\* the entries of the tree t inside the directory d
Members(t, d) == {p \in Paths : Len(p) > Len(d) /\ Parent(p) = d /\ t[p] # NoEnt}

\* the position of the object f in the order remove_files takes the paths in
RemoveRank(files, f) ==
    CHOOSE i \in 1..Cardinality(files) : Reverse(SortPaths(files))[i] = f

\* C19: remove_files takes a member before its directory and raises nothing;
\* a removed directory whose members are all in the removed set is deleted,
\* and one with a member the set does not name is left in place.
C19_ChildrenFirst ==
    kcase.done =>
        /\ kcase.out.err = "ok"
        /\ \A f \in kcase.files, g \in kcase.files :
              (f.cls = "Directory" /\ Parent(g.path) = f.path) =>
                  RemoveRank(kcase.files, g) < RemoveRank(kcase.files, f)
        /\ \A f \in kcase.files :
              (f.cls = "Directory" /\ kcase.tree[f.path] = DirEnt) =>
                  /\ (\A p \in Members(kcase.tree, f.path) :
                         FileObj(ClsOf(kcase.tree[p].kind), p) \in kcase.files) =>
                            kcase.out.t[f.path] = NoEnt
                  /\ (\E p \in Members(kcase.tree, f.path) :
                         \A g \in kcase.files : g.path # p) =>
                            kcase.out.t[f.path] = DirEnt

\* C19 witness: a directory with two members, all three in the removed set,
\* is gone
C19_Witness ==
    /\ kcase.done
    /\ kcase.tree[<<"a">>] = DirEnt
    /\ Cardinality(Members(kcase.tree, <<"a">>)) = 2
    /\ FileObj("Directory", <<"a">>) \in kcase.files
    /\ \A p \in Members(kcase.tree, <<"a">>) :
          FileObj(ClsOf(kcase.tree[p].kind), p) \in kcase.files
    /\ kcase.out.t[<<"a">>] = NoEnt

-----------------------------------------------------------------------------
(* The delta chain when the keys are the ones the key format builds *)

\* the times of the runs, in the order they pass: two in one second, and
\* a day in a later year whose day and month are smaller
ChainClock ==
    <<[Y |-> 1999, m |-> 10, d |-> 2, H |-> 0, M |-> 0, S |-> 9, f |-> 0],
      [Y |-> 1999, m |-> 10, d |-> 2, H |-> 0, M |-> 0, S |-> 10, f |-> 0],
      [Y |-> 1999, m |-> 10, d |-> 2, H |-> 0, M |-> 0, S |-> 10, f |-> 1],
      [Y |-> 2000, m |-> 9, d |-> 1, H |-> 0, M |-> 0, S |-> 9, f |-> 0]>>

\* BaseBackup._prepare: the key of the time dt, as its place among the keys of
\* the clock in the order sorted(os.listdir(...)) gives them; equal keys have
\* one place, for they name one directory
key_of(fmt, dt) ==
    LET Place(k) ==
            1 + Cardinality({x \in {BuildKey(fmt, ChainClock[i]) :
                                        i \in DOMAIN ChainClock} : KeyLess(x, k)})
    IN Place(BuildKey(fmt, dt))

\* the formats of the runs: one that orders the keys as the times, one
\* without microseconds, one with the day first
ChainFormats ==
    {<<"Y", "m", "d", "H", "M", "S", "f">>,
     <<"Y", "m", "d", "H", "M", "S">>,
     <<"d", "m", "Y", "H", "M", "S", "f">>}

\* the source trees of the runs: the entry a absent, a file of either
\* content, or a directory holding the file a/b
ChainTrees ==
    {Tree(a, NoEnt, NoEnt) : a \in {NoEnt, FileEnt(1), FileEnt(2)}}
    \cup {Tree(DirEnt, FileEnt(1), NoEnt)}

\* no run has been made under the clock
NoChain == [fmt |-> <<>>, now |-> 1, key |-> NoKey, against |-> NoKey,
            moved |-> NoKey, ran |-> FALSE]

ChainInit ==
    /\ cfg \in {c \in Configs : c.method = "diff" /\ c.fs = "ext4"}
    /\ src \in ChainTrees
    /\ repo = <<>>
    /\ hist = <<>>
    /\ last = NoRun
    /\ sched = IdleSched
    /\ kcase \in {[NoChain EXCEPT !.fmt = fmt] : fmt \in ChainFormats}
    /\ run = NoStep

\* time passes without a run
ChainTick ==
    /\ kcase.now < Len(ChainClock)
    /\ kcase' = [kcase EXCEPT !.now = @ + 1]
    /\ UNCHANGED <<cfg, src, repo, hist, last, sched, run>>

\* the user edits the source directory
ChainEdit(t) ==
    /\ t # src
    /\ src' = t
    /\ UNCHANGED <<cfg, repo, hist, last, sched, kcase, run>>

\* backup.make() at the time of the clock: against is the key _build_diff_map
\* reads the previous data of, moved is the key _copy_data takes as prev_key
\* once the directory of the new key exists
ChainMake(lost) ==
    LET Returned(m, key) ==
            /\ repo' = m.repo
            /\ hist' = [k \in DOMAIN m.repo |->
                           IF k \in DOMAIN repo THEN hist[k] ELSE src]
            /\ last' = [status |-> m.status, key |-> m.key, diff |-> m.diff,
                        pre |-> repo]
            /\ kcase' = [kcase EXCEPT
                   !.now = @ + 1,
                   !.key = key,
                   !.ran = m.status \in {"created", "copy_error", "oob"},
                   !.against = get_last_key(DOMAIN repo, 1),
                   !.moved = get_last_key(DOMAIN EnsureKeyDir(repo, key), 2)]
            /\ UNCHANGED <<cfg, src, sched, run>>
        At(key) == Returned(make_at(cfg, src, repo, lost, key), key)
    IN /\ kcase.now <= Len(ChainClock)
       /\ At(key_of(kcase.fmt, ChainClock[kcase.now]))

ChainNext ==
    \/ ChainTick
    \/ \E t \in ChainTrees : ChainEdit(t)
    \/ \E lost \in LostSets(src) : ChainMake(lost)

SpecChain == ChainInit /\ [][ChainNext]_vars

\* the new key is greater than every key the repository held
NewKeyLast == \A k \in DOMAIN last.pre : k < kcase.key

\* C18 (as claimed): in every delta-chain run that reaches _copy_data with a
\* previous snapshot to move, the snapshot whose data is moved is the one the
\* diff was computed against.
C18_MovedIsCompared ==
    (kcase.ran /\ kcase.moved # NoKey) => kcase.moved = kcase.against

\* C18 (amended): the same, for a run whose new key is greater than every key
\* of the repository.
C18_MovedIsComparedWhenLast ==
    (kcase.ran /\ kcase.moved # NoKey /\ NewKeyLast) => kcase.moved = kcase.against

\* C18 witness: a run under a chronological format created a third snapshot
\* and rewrote the data of the second, the one its diff was computed against
C18_Witness ==
    /\ kcase.ran /\ NewKeyLast /\ Chronological(kcase.fmt)
    /\ last.status = "created"
    /\ Cardinality(DOMAIN last.pre) = 2
    /\ kcase.moved = kcase.against /\ kcase.moved \in DOMAIN repo
    /\ repo[kcase.moved] # last.pre[kcase.moved]
    /\ repo[kcase.key].data.ex

====
